---- MODULE Spec2Model ----
(***************************************************************************)
(* Plate-text cleaning, validation and ensemble decision of                *)
(* app/ocr_enhancement.py, with the callers of app/ocr.py.                 *)
(*                                                                         *)
(* A text is a sequence of one-character strings.  A confidence is an      *)
(* integer number of thousandths (CONF_ONE = 1.0).  A hypothesis score is  *)
(* an integer key that orders exactly as the IEEE doubles the code         *)
(* computes (see FloatKey).                                                *)
(***************************************************************************)
EXTENDS Integers, Sequences, FiniteSets, TLC

\* pc: the step of the call; text, cleaned, recleaned, valid: the argument and
\* results of the text functions; hypotheses, best_analysis, corrected_text: the
\* results list and the selection of analyze_plate_pattern, and the analysis
\* context_aware_correction selects and its result; input_confidence,
\* adjusted_confidence: the argument and the result of
\* calculate_confidence_boost; easyocr_text .. decision: the arguments, the
\* locals easy_cleaned and paddle_cleaned, and the result of
\* smart_ensemble_decision; easy_outcome, paddle_outcome: what the two OCR
\* engines do when easyocr_plate and paddleocr_plate call them;
\* ensemble_source: the source get_all_ocr_results reports; calls: the frame of
\* each thread inside smart_ensemble_decision or OCRManager(), and returned:
\* what the calls returned so far; manager: the attributes of the class
\* OCRManager and of its instances.
VARIABLES pc, text, cleaned, recleaned, valid,
          hypotheses, best_analysis, corrected_text,
          input_confidence, adjusted_confidence,
          easyocr_text, easyocr_conf, paddleocr_text, paddleocr_conf,
          easy_cleaned, paddle_cleaned, decision,
          easy_outcome, paddle_outcome, ensemble_source,
          calls, returned, manager

textVars == <<text, cleaned, recleaned, valid>>

correctionVars == <<hypotheses, best_analysis, corrected_text>>

boostVars == <<input_confidence, adjusted_confidence>>

ensembleVars == <<easyocr_text, easyocr_conf, paddleocr_text, paddleocr_conf,
                  easy_cleaned, paddle_cleaned, decision>>

engineVars == <<easy_outcome, paddle_outcome, ensemble_source>>

callVars == <<calls, returned, manager>>

vars == <<pc, textVars, correctionVars, boostVars, ensembleVars, engineVars, callVars>>

(***************************************************************************)
(* Characters                                                              *)
(***************************************************************************)
DIGITS == {"0", "1", "2", "3", "4", "5", "6", "7", "8", "9"}

UPPER_SEQ == <<"A", "B", "C", "D", "E", "F", "G", "H", "I", "J", "K", "L", "M",
               "N", "O", "P", "Q", "R", "S", "T", "U", "V", "W", "X", "Y", "Z">>

LOWER_SEQ == <<"a", "b", "c", "d", "e", "f", "g", "h", "i", "j", "k", "l", "m",
               "n", "o", "p", "q", "r", "s", "t", "u", "v", "w", "x", "y", "z">>

LETTERS == {UPPER_SEQ[i] : i \in DOMAIN UPPER_SEQ}

LOWERS == {LOWER_SEQ[i] : i \in DOMAIN LOWER_SEQ}

WHITESPACE == {" ", "\n"}

\* Python None, as a text argument: no character is a string of this length.
NoneText == <<"None">>

EmptyText == << >>

\* str.upper() of one character.
UpperChar(c) ==
    IF c \in LOWERS
    THEN UPPER_SEQ[CHOOSE i \in DOMAIN LOWER_SEQ : LOWER_SEQ[i] = c]
    ELSE c

\* str.upper()
Upper(s) == [i \in 1..Len(s) |-> UpperChar(s[i])]

\* str.strip(): leading and trailing whitespace removed.
Strip(s) ==
    LET keep == {i \in 1..Len(s) : s[i] \notin WHITESPACE}
    IN  IF keep = {} THEN EmptyText
        ELSE LET lo == CHOOSE i \in keep : \A j \in keep : i <= j
                 hi == CHOOSE i \in keep : \A j \in keep : j <= i
             IN  SubSeq(s, lo, hi)

IsAlnumChar(c) == c \in LETTERS \cup DIGITS

\* re.sub(r"[^A-Z0-9]", "", s)
StripNonAlnum(s) == SelectSeq(s, IsAlnumChar)

\* s.replace(old, new) for one-character old and new.
Replace(s, old, new) == [i \in 1..Len(s) |-> IF s[i] = old THEN new ELSE s[i]]

AllIn(s, S) == \A i \in 1..Len(s) : s[i] \in S

\* str.isalpha() / str.isdigit() on text over [A-Z0-9]: false on the empty string.
IsAlpha(s) == Len(s) > 0 /\ AllIn(s, LETTERS)

IsDigit(s) == Len(s) > 0 /\ AllIn(s, DIGITS)

\* s[:n] and s[n:]
Prefix(s, n) == SubSeq(s, 1, IF n < Len(s) THEN n ELSE Len(s))

Suffix(s, n) == SubSeq(s, n + 1, Len(s))

(***************************************************************************)
(* Regular expressions.  re.match(r'^...$', s): "$" matches at the end of  *)
(* s and also just before a newline that ends s.                           *)
(***************************************************************************)
Chomp(s) ==
    IF Len(s) > 0 /\ s[Len(s)] = "\n" THEN SubSeq(s, 1, Len(s) - 1) ELSE s

\* s is exactly <2 digits><nl letters><nn digits>
StandardShape(s, nl, nn) ==
    /\ Len(s) = 2 + nl + nn
    /\ AllIn(SubSeq(s, 1, 2), DIGITS)
    /\ AllIn(SubSeq(s, 3, 2 + nl), LETTERS)
    /\ AllIn(SubSeq(s, 3 + nl, Len(s)), DIGITS)

\* r'^([0-9]{2})([A-Z]{nl})([0-9]{nn})$'
MatchStandard(s, nl, nn) == StandardShape(s, nl, nn) \/ StandardShape(Chomp(s), nl, nn)

\* s is exactly <a letters><b digits><c letters>
SpecialShape(s, a, b, c) ==
    /\ Len(s) = a + b + c
    /\ AllIn(SubSeq(s, 1, a), LETTERS)
    /\ AllIn(SubSeq(s, a + 1, a + b), DIGITS)
    /\ AllIn(SubSeq(s, a + b + 1, Len(s)), LETTERS)

\* The split <<a, b, c>> a greedy match of ^([A-Z]{a1,a2})([0-9]{b1,b2})([A-Z]{c1,c2})$
\* gives s, or << >> when there is none.  The three classes are disjoint, so
\* a string has at most one split.
SpecialSplit(s, a1, a2, b1, b2, c1, c2) ==
    LET splits == {t \in (a1..a2) \X (b1..b2) \X (c1..c2) :
                      SpecialShape(s, t[1], t[2], t[3])}
    IN  IF splits = {} THEN << >> ELSE CHOOSE t \in splits : TRUE

\* r'^[A-Z]{2,3}[0-9]{3,4}[A-Z]?$'
MatchDiplomatic(s) ==
    \/ SpecialSplit(s, 2, 3, 3, 4, 0, 1) # << >>
    \/ SpecialSplit(Chomp(s), 2, 3, 3, 4, 0, 1) # << >>

\* MatchOld with {3,4} for {2,4} digits.
MatchOld_ThreeDigits(s) ==
    \/ SpecialSplit(s, 1, 2, 3, 4, 1, 2) # << >>
    \/ SpecialSplit(Chomp(s), 1, 2, 3, 4, 1, 2) # << >>

\* r'^[A-Z]{1,2}[0-9]{2,4}[A-Z]{1,2}$'
MatchOld(s) ==
    \/ SpecialSplit(s, 1, 2, 2, 4, 1, 2) # << >>
    \/ SpecialSplit(Chomp(s), 1, 2, 2, 4, 1, 2) # << >>

(***************************************************************************)
(* Lookup tables                                                           *)
(***************************************************************************)
VALID_PROVINCE_CODES == {
    <<"0","1">>, <<"0","2">>, <<"0","3">>, <<"0","4">>, <<"0","5">>, <<"0","6">>, <<"0","7">>, <<"0","8">>, <<"0","9">>, <<"1","0">>,
    <<"1","1">>, <<"1","2">>, <<"1","3">>, <<"1","4">>, <<"1","5">>, <<"1","6">>, <<"1","7">>, <<"1","8">>, <<"1","9">>, <<"2","0">>,
    <<"2","1">>, <<"2","2">>, <<"2","3">>, <<"2","4">>, <<"2","5">>, <<"2","6">>, <<"2","7">>, <<"2","8">>, <<"2","9">>, <<"3","0">>,
    <<"3","1">>, <<"3","2">>, <<"3","3">>, <<"3","4">>, <<"3","5">>, <<"3","6">>, <<"3","7">>, <<"3","8">>, <<"3","9">>, <<"4","0">>,
    <<"4","1">>, <<"4","2">>, <<"4","3">>, <<"4","4">>, <<"4","5">>, <<"4","6">>, <<"4","7">>, <<"4","8">>, <<"4","9">>, <<"5","0">>,
    <<"5","1">>, <<"5","2">>, <<"5","3">>, <<"5","4">>, <<"5","5">>, <<"5","6">>, <<"5","7">>, <<"5","8">>, <<"5","9">>, <<"6","0">>,
    <<"6","1">>, <<"6","2">>, <<"6","3">>, <<"6","4">>, <<"6","5">>, <<"6","6">>, <<"6","7">>, <<"6","8">>, <<"6","9">>, <<"7","0">>,
    <<"7","1">>, <<"7","2">>, <<"7","3">>, <<"7","4">>, <<"7","5">>, <<"7","6">>, <<"7","7">>, <<"7","8">>, <<"7","9">>, <<"8","0">>,
    <<"8","1">>}

\* LETTER_TO_NUMBER, applied in the order of the dictionary's items.
ApplyLetterToNumber(s) ==
    Replace(Replace(Replace(Replace(Replace(Replace(Replace(s,
        "B", "8"), "D", "0"), "G", "6"), "S", "5"), "O", "0"), "I", "1"), "Z", "2")

\* NUMBER_TO_LETTER, applied in the order of the dictionary's items.
ApplyNumberToLetter(s) ==
    Replace(Replace(Replace(Replace(Replace(Replace(s,
        "8", "B"), "0", "O"), "6", "G"), "5", "S"), "1", "I"), "2", "Z")

\* {'O': '0', 'I': '1', 'D': '0'} on the province of a variant.
ApplyProvinceFixes(s) == Replace(Replace(Replace(s, "O", "0"), "I", "1"), "D", "0")

\* conservative_fixes = {'O': '0', 'I': '1', 'S': '5', 'Z': '2'}
ApplyConservativeFixes(s) ==
    Replace(Replace(Replace(Replace(s, "O", "0"), "I", "1"), "S", "5"), "Z", "2")

\* {'0': 'O', '1': 'I'} on a letter group of a special format.
ApplySpecialLetterFixes(s) == Replace(Replace(s, "0", "O"), "1", "I")

\* {'O': '0', 'I': '1', 'S': '5'} on the digit group of a special format.
ApplySpecialNumberFixes(s) == Replace(Replace(Replace(s, "O", "0"), "I", "1"), "S", "5")

\* The 12 standard layouts, in the order both functions list them; confidence in tenths.
standard_patterns == <<
    [letters |-> 1, numbers |-> 1, confidence |-> 7],
    [letters |-> 1, numbers |-> 2, confidence |-> 8],
    [letters |-> 1, numbers |-> 3, confidence |-> 9],
    [letters |-> 1, numbers |-> 4, confidence |-> 9],
    [letters |-> 2, numbers |-> 1, confidence |-> 8],
    [letters |-> 2, numbers |-> 2, confidence |-> 9],
    [letters |-> 2, numbers |-> 3, confidence |-> 9],
    [letters |-> 2, numbers |-> 4, confidence |-> 8],
    [letters |-> 3, numbers |-> 1, confidence |-> 9],
    [letters |-> 3, numbers |-> 2, confidence |-> 8],
    [letters |-> 3, numbers |-> 3, confidence |-> 7],
    [letters |-> 3, numbers |-> 4, confidence |-> 6] >>

(***************************************************************************)
(* enhanced_validation                                                     *)
(***************************************************************************)
\* StandardAccepts with the province lookup forgotten.
StandardAccepts_AnyProvince(s) ==
    \E i \in DOMAIN standard_patterns :
        MatchStandard(s, standard_patterns[i].letters, standard_patterns[i].numbers)

\* The loop over valid_patterns: some layout matches and text[:2] is a province.
StandardAccepts(s) ==
    \E i \in DOMAIN standard_patterns :
        /\ MatchStandard(s, standard_patterns[i].letters, standard_patterns[i].numbers)
        /\ Prefix(s, 2) \in VALID_PROVINCE_CODES

\* enhanced_validation with the guard on the length forgotten.
enhanced_validation_NoLengthGuard(s) ==
    IF s = NoneText \/ s = EmptyText THEN FALSE
    ELSE IF StandardAccepts(s) THEN TRUE
    ELSE IF MatchDiplomatic(s) THEN TRUE
    ELSE IF MatchOld(s) THEN TRUE
    ELSE FALSE

enhanced_validation(s) ==
    IF s = NoneText \/ s = EmptyText \/ Len(s) < 5 THEN FALSE
    ELSE IF StandardAccepts(s) THEN TRUE
    ELSE IF MatchDiplomatic(s) THEN TRUE
    ELSE IF MatchOld(s) THEN TRUE
    ELSE FALSE

(***************************************************************************)
(* Scores.  The code's scores are IEEE doubles.  A double is modelled by   *)
(* its exact decimal value and, where several roundings of that value      *)
(* occur among the scores the code can compute, by its rank among them, so *)
(* that comparisons (max, > 0.6) come out as they do in the code.          *)
(***************************************************************************)
\* A correction_score: value in hundredths, ulp the rank of its double.
\* 0.0 + 0.05 is above 0.15 - 0.1; 0.15 + 0.05 is above 0.15 + 0.15 - 0.1.
CorrectionScore(value, bonuses, many) ==
    [value |-> value,
     ulp   |-> IF (value = 5 /\ bonuses = 0) \/ (value = 20 /\ ~many) THEN 1 ELSE 0]

\* The rank of the double (0.4 [+ 0.3] + correction_score) * confidence * 0.9
\* among the doubles with the same exact value.
VariantUlp(conf, province_ok, cs) ==
    LET k == <<conf, IF province_ok THEN 1 ELSE 0, cs.value, cs.ulp>>
    IN  IF k \in {<<8, 0, 20, 1>>, <<9, 0, 20, 1>>} THEN 2
        ELSE IF k \in {<<6, 0, 20, 1>>, <<6, 0, 40, 0>>, <<7, 0, 20, 1>>,
                       <<8, 0, 5, 0>>, <<8, 0, 5, 1>>, <<8, 0, 20, 0>>,
                       <<8, 0, 40, 0>>, <<8, 1, -10, 0>>, <<9, 0, -10, 0>>,
                       <<9, 0, 10, 0>>, <<9, 0, 20, 0>>, <<9, 0, 40, 0>>,
                       <<9, 1, -10, 0>>} THEN 1
        ELSE 0

\* The order key of a double: exact value in 1/10000, then the rank.
FloatKey(exact, ulp) == exact * 4 + ulp

\* analysis['confidence'] > 0.6
THRESHOLD == FloatKey(6000, 0)

(***************************************************************************)
(* generate_correction_variants and calculate_variant_score                *)
(***************************************************************************)
\* sum(1 for i, c in enumerate(orig) if i < len(corr) and c != corr[i])
Changes(orig, corr) ==
    Cardinality({i \in 1..Len(orig) : i <= Len(corr) /\ orig[i] # corr[i]})

calculate_variant_score(orig_letters, orig_numbers, corr_letters, corr_numbers) ==
    LET letter_bonus == IF IsAlpha(corr_letters) /\ ~IsAlpha(orig_letters) THEN 15 ELSE 0
        number_bonus == IF IsDigit(corr_numbers) /\ ~IsDigit(orig_numbers) THEN 15 ELSE 0
        total_changes == Changes(orig_letters, corr_letters)
                         + Changes(orig_numbers, corr_numbers)
        change_term == IF total_changes <= 2 THEN 10
                       ELSE IF total_changes <= 4 THEN 5
                       ELSE -10
    IN  CorrectionScore(letter_bonus + number_bonus + change_term,
                        letter_bonus + number_bonus,
                        total_changes > 4)

\* province_corrected of generate_correction_variants
ProvinceCorrected(t) == ApplyProvinceFixes(Prefix(t, 2))

\* Strategy 1: the province-only variant, when the province changes.
ProvinceVariants(t) ==
    IF ProvinceCorrected(t) # Prefix(t, 2)
    THEN << [text |-> ProvinceCorrected(t) \o Suffix(t, 2),
             correction_score |-> CorrectionScore(10, 0, FALSE)] >>
    ELSE << >>

\* Strategy 2, one split point: the variant it appends, if any.
SplitVariant(t, split_point) ==
    LET remaining == Suffix(t, 2)
        potential_letters == Prefix(remaining, split_point)
        potential_numbers == Suffix(remaining, split_point)
        corrected_letters == ApplyNumberToLetter(potential_letters)
        corrected_numbers == ApplyConservativeFixes(potential_numbers)
        corrected_variant == ProvinceCorrected(t) \o corrected_letters \o corrected_numbers
    IN  IF ~(/\ 1 <= Len(potential_letters) /\ Len(potential_letters) <= 3
             /\ 1 <= Len(potential_numbers) /\ Len(potential_numbers) <= 4)
        THEN << >>
        ELSE IF corrected_variant # t
        THEN << [text |-> corrected_variant,
                 correction_score |->
                     calculate_variant_score(potential_letters, potential_numbers,
                                             corrected_letters, corrected_numbers)] >>
        ELSE << >>

RECURSIVE SplitVariants(_, _)
\* Strategy 2: the variants of split points split_point .. len(remaining) - 1.
SplitVariants(t, split_point) ==
    IF split_point > Len(t) - 3 THEN << >>
    ELSE SplitVariant(t, split_point) \o SplitVariants(t, split_point + 1)

generate_correction_variants(t) ==
    IF Len(t) < 5 THEN << >>
    ELSE ProvinceVariants(t) \o SplitVariants(t, 1)

(***************************************************************************)
(* analyze_plate_pattern                                                   *)
(***************************************************************************)
RECURSIVE ConcatRange(_, _, _)
\* F(i) \o F(i + 1) \o ... \o F(n): the appends of a for loop, in order.
ConcatRange(F(_), i, n) ==
    IF i > n THEN << >> ELSE F(i) \o ConcatRange(F, i + 1, n)

\* match.groups() of a standard layout
StandardGroups(s, nl) ==
    LET t == Chomp(s)
    IN  << SubSeq(t, 1, 2), SubSeq(t, 3, 2 + nl), SubSeq(t, 3 + nl, Len(t)) >>

\* DirectScore without the layout's own weight.
DirectScore_Unweighted(province, pattern) ==
    LET base == 50 + (IF province \in VALID_PROVINCE_CODES THEN 30 ELSE 0)
        likelihood == IF pattern.letters = 2 /\ 2 <= pattern.numbers /\ pattern.numbers <= 3
                          THEN 20
                      ELSE IF pattern.letters = 3 /\ pattern.numbers = 1 THEN 15
                      ELSE IF pattern.letters = 1 /\ pattern.numbers = 4 THEN 15
                      ELSE 0
    IN  FloatKey((base + likelihood) * 100, 0)

\* The score of a layout the text matches as it is.
DirectScore(province, pattern) ==
    LET base == 50 + (IF province \in VALID_PROVINCE_CODES THEN 30 ELSE 0)
        likelihood == IF pattern.letters = 2 /\ 2 <= pattern.numbers /\ pattern.numbers <= 3
                          THEN 20
                      ELSE IF pattern.letters = 3 /\ pattern.numbers = 1 THEN 15
                      ELSE IF pattern.letters = 1 /\ pattern.numbers = 4 THEN 15
                      ELSE 0
    IN  FloatKey((base + likelihood) * pattern.confidence * 10, 0)

\* The hypothesis the first loop appends for pattern i, if any.
DirectResult(t, i) ==
    LET pattern == standard_patterns[i]
        groups == StandardGroups(t, pattern.letters)
    IN  IF MatchStandard(t, pattern.letters, pattern.numbers)
        THEN << [type |-> "standard", groups |-> groups,
                 confidence |-> DirectScore(groups[1], pattern),
                 expected_letters |-> pattern.letters,
                 expected_numbers |-> pattern.numbers,
                 has_corrected_text |-> FALSE, corrected_text |-> << >>] >>
        ELSE << >>

\* VariantScore without the layout's own weight.
VariantScore_Unweighted(province, pattern, correction_score) ==
    LET province_ok == province \in VALID_PROVINCE_CODES
        score == 40 + (IF province_ok THEN 30 ELSE 0) + correction_score.value
    IN  FloatKey(score * 90, 0)

\* The score of a layout a correction variant matches.
VariantScore(province, pattern, correction_score) ==
    LET province_ok == province \in VALID_PROVINCE_CODES
        score == 40 + (IF province_ok THEN 30 ELSE 0) + correction_score.value
    IN  FloatKey(score * pattern.confidence * 9,
                 VariantUlp(pattern.confidence, province_ok, correction_score))

\* The hypothesis the second loop appends for a variant and pattern i, if any.
VariantResult(variant, i) ==
    LET pattern == standard_patterns[i]
        groups == StandardGroups(variant.text, pattern.letters)
    IN  IF MatchStandard(variant.text, pattern.letters, pattern.numbers)
        THEN << [type |-> "standard", groups |-> groups,
                 confidence |-> VariantScore(groups[1], pattern, variant.correction_score),
                 expected_letters |-> pattern.letters,
                 expected_numbers |-> pattern.numbers,
                 has_corrected_text |-> TRUE, corrected_text |-> variant.text] >>
        ELSE << >>

\* match.groups() of a special format whose split is sp
SpecialGroups(s, sp) ==
    << SubSeq(s, 1, sp[1]), SubSeq(s, sp[1] + 1, sp[1] + sp[2]),
       SubSeq(s, sp[1] + sp[2] + 1, sp[1] + sp[2] + sp[3]) >>

SpecialResult(type, conf, s, sp) ==
    IF sp = << >> THEN << >>
    ELSE << [type |-> type, groups |-> SpecialGroups(s, sp),
             confidence |-> FloatKey(conf, 0),
             expected_letters |-> 0, expected_numbers |-> 0,
             has_corrected_text |-> FALSE, corrected_text |-> << >>] >>

analyze_special_formats(t) ==
    LET s == Chomp(t)
    IN  SpecialResult("diplomatic", 8000, s,
                      IF MatchDiplomatic(t) THEN SpecialSplit(s, 2, 3, 3, 4, 0, 1) ELSE << >>)
        \o
        SpecialResult("old", 6000, s,
                      IF MatchOld(t) THEN SpecialSplit(s, 1, 2, 2, 4, 1, 2) ELSE << >>)

\* results, in the order the three stages append them
AnalysisResults(t) ==
    LET corrected_variants == generate_correction_variants(t)
        Direct(i) == DirectResult(t, i)
        OfVariant(v) ==
            LET Hit(i) == VariantResult(corrected_variants[v], i)
            IN  ConcatRange(Hit, 1, Len(standard_patterns))
    IN  ConcatRange(Direct, 1, Len(standard_patterns))
        \o ConcatRange(OfVariant, 1, Len(corrected_variants))
        \o analyze_special_formats(t)

UnknownAnalysis ==
    [type |-> "unknown", groups |-> << >>, confidence |-> FloatKey(0, 0),
     expected_letters |-> 0, expected_numbers |-> 0,
     has_corrected_text |-> FALSE, corrected_text |-> << >>]

\* max with the last of the greatest results returned.
FirstMax_Last(results) ==
    LET best == CHOOSE i \in DOMAIN results :
                    /\ \A j \in DOMAIN results :
                           results[j].confidence <= results[i].confidence
                    /\ \A j \in (i + 1)..Len(results) :
                           results[j].confidence < results[i].confidence
    IN  results[best]

\* max(results, key=...): the first result of the greatest confidence.
FirstMax(results) ==
    LET best == CHOOSE i \in DOMAIN results :
                    /\ \A j \in DOMAIN results :
                           results[j].confidence <= results[i].confidence
                    /\ \A j \in 1..(i - 1) :
                           results[j].confidence < results[i].confidence
    IN  results[best]

analyze_plate_pattern(t) ==
    LET results == AnalysisResults(t)
    IN  IF results # << >> THEN FirstMax(results) ELSE UnknownAnalysis

(***************************************************************************)
(* Corrections                                                             *)
(***************************************************************************)
apply_dynamic_standard_corrections(t, analysis) ==
    IF analysis.has_corrected_text THEN analysis.corrected_text
    ELSE IF Len(analysis.groups) >= 3
    THEN ApplyLetterToNumber(analysis.groups[1]) \o analysis.groups[2] \o analysis.groups[3]
    ELSE t

\* apply_diplomatic_corrections with the trailing letter forgotten.
apply_diplomatic_corrections_NoTrailing(t, analysis) ==
    IF Len(analysis.groups) >= 2
    THEN ApplySpecialLetterFixes(analysis.groups[1])
         \o ApplySpecialNumberFixes(analysis.groups[2])
    ELSE t

apply_diplomatic_corrections(t, analysis) ==
    IF Len(analysis.groups) >= 2
    THEN ApplySpecialLetterFixes(analysis.groups[1])
         \o ApplySpecialNumberFixes(analysis.groups[2])
         \o (IF Len(analysis.groups) > 2 /\ analysis.groups[3] # << >>
             THEN analysis.groups[3] ELSE << >>)
    ELSE t

apply_old_format_corrections(t, analysis) ==
    IF Len(analysis.groups) >= 3
    THEN ApplySpecialLetterFixes(analysis.groups[1])
         \o ApplySpecialNumberFixes(analysis.groups[2])
         \o ApplySpecialLetterFixes(analysis.groups[3])
    ELSE t

apply_corrections_based_on_analysis(t, analysis) ==
    IF analysis.type = "standard" THEN apply_dynamic_standard_corrections(t, analysis)
    ELSE IF analysis.type = "diplomatic" THEN apply_diplomatic_corrections(t, analysis)
    ELSE IF analysis.type = "old" THEN apply_old_format_corrections(t, analysis)
    ELSE t

\* obvious_fixes = {'O': '0', 'I': '1'}
apply_conservative_corrections(t) == Replace(Replace(t, "O", "0"), "I", "1")

\* context_aware_correction with the threshold test written >=.
context_aware_correction_AtLeast(t) ==
    IF t = EmptyText \/ Len(t) < 5 THEN t
    ELSE LET clean_text == StripNonAlnum(Upper(t))
             analysis == analyze_plate_pattern(clean_text)
         IN  IF analysis.confidence >= THRESHOLD
             THEN apply_corrections_based_on_analysis(clean_text, analysis)
             ELSE apply_conservative_corrections(clean_text)

context_aware_correction(t) ==
    IF t = EmptyText \/ Len(t) < 5 THEN t
    ELSE LET clean_text == StripNonAlnum(Upper(t))
             analysis == analyze_plate_pattern(clean_text)
         IN  IF analysis.confidence > THRESHOLD
             THEN apply_corrections_based_on_analysis(clean_text, analysis)
             ELSE apply_conservative_corrections(clean_text)

(***************************************************************************)
(* enhanced_clean_text                                                     *)
(***************************************************************************)
\* BasicCleanup with upper() forgotten: the substitution drops lower-case letters.
BasicCleanup_NoUpper(t) == StripNonAlnum(Strip(t))

\* text.upper().strip(), then re.sub(r"[^A-Z0-9]", "", text)
BasicCleanup(t) == StripNonAlnum(Strip(Upper(t)))

\* LengthCheck with the upper limit off by one.
LengthCheck_OffByOne(t) == IF Len(t) < 2 \/ Len(t) > 11 THEN EmptyText ELSE t

\* The length check that ends enhanced_clean_text.
LengthCheck(t) == IF Len(t) < 2 \/ Len(t) > 10 THEN EmptyText ELSE t

enhanced_clean_text(t) ==
    IF t = NoneText \/ t = EmptyText THEN EmptyText
    ELSE LengthCheck(context_aware_correction(BasicCleanup(t)))

(***************************************************************************)
(* calculate_confidence_boost and smart_ensemble_decision                  *)
(***************************************************************************)
CONF_ONE == 1000

Min(a, b) == IF a <= b THEN a ELSE b

Max(a, b) == IF a >= b THEN a ELSE b

\* r'^[0-9]{2}[A-Z]{1,3}[0-9]{1,4}$'
MatchAnyStandard(s) ==
    \E nl \in 1..3, nn \in 1..4 : MatchStandard(s, nl, nn)

\* calculate_confidence_boost with the test for the standard layout forgotten:
\* every accepted text gets the 30% boost.
calculate_confidence_boost_NoLayoutTest(t, original_confidence) ==
    IF enhanced_validation(t)
    THEN Min(CONF_ONE, (original_confidence * 130) \div 100)
    ELSE Max(CONF_ONE \div 10, (original_confidence * 90) \div 100)

\* calculate_confidence_boost with the return of line 448 forgotten: an accepted
\* text that is not of the standard layout falls through to the penalty.
calculate_confidence_boost_FallThrough(t, original_confidence) ==
    IF enhanced_validation(t) /\ MatchAnyStandard(t) /\ Prefix(t, 2) \in VALID_PROVINCE_CODES
    THEN Min(CONF_ONE, (original_confidence * 130) \div 100)
    ELSE Max(CONF_ONE \div 10, (original_confidence * 90) \div 100)

\* calculate_confidence_boost with min for max in the penalty.
calculate_confidence_boost_MinFloor(t, original_confidence) ==
    IF enhanced_validation(t)
    THEN IF MatchAnyStandard(t) /\ Prefix(t, 2) \in VALID_PROVINCE_CODES
         THEN Min(CONF_ONE, (original_confidence * 130) \div 100)
         ELSE Min(CONF_ONE, (original_confidence * 115) \div 100)
    ELSE Min(CONF_ONE \div 10, (original_confidence * 90) \div 100)

\* calculate_confidence_boost with the cap at 1.0 forgotten.
calculate_confidence_boost_NoCap(t, original_confidence) ==
    IF enhanced_validation(t)
    THEN IF MatchAnyStandard(t) /\ Prefix(t, 2) \in VALID_PROVINCE_CODES
         THEN (original_confidence * 130) \div 100
         ELSE (original_confidence * 115) \div 100
    ELSE Max(CONF_ONE \div 10, (original_confidence * 90) \div 100)

calculate_confidence_boost(t, original_confidence) ==
    IF enhanced_validation(t)
    THEN IF MatchAnyStandard(t) /\ Prefix(t, 2) \in VALID_PROVINCE_CODES
         THEN Min(CONF_ONE, (original_confidence * 130) \div 100)
         ELSE Min(CONF_ONE, (original_confidence * 115) \div 100)
    ELSE Max(CONF_ONE \div 10, (original_confidence * 90) \div 100)

Decision(final_text, final_confidence, tag) ==
    [final_text |-> final_text, final_confidence |-> final_confidence, tag |-> tag]

\* DecisionLogic with the agreement branch forgotten.
DecisionLogic_NoAgreement(e_cleaned, e_conf, p_cleaned, p_conf) ==
    LET easy_valid == enhanced_validation(e_cleaned)
        paddle_valid == enhanced_validation(p_cleaned)
        easy_higher == e_conf >= p_conf
    IN  IF easy_valid /\ ~paddle_valid
        THEN Decision(e_cleaned, calculate_confidence_boost(e_cleaned, e_conf),
                      "easyocr_valid")
        ELSE IF paddle_valid /\ ~easy_valid
        THEN Decision(p_cleaned, calculate_confidence_boost(p_cleaned, p_conf),
                      "paddleocr_valid")
        ELSE IF easy_valid /\ paddle_valid
        THEN Decision(IF easy_higher THEN e_cleaned ELSE p_cleaned,
                      IF easy_higher THEN calculate_confidence_boost(e_cleaned, e_conf)
                      ELSE calculate_confidence_boost(p_cleaned, p_conf),
                      IF easy_higher THEN "both_valid_easy_higher"
                      ELSE "both_valid_paddle_higher")
        ELSE Decision(IF easy_higher THEN e_cleaned ELSE p_cleaned,
                      IF easy_higher THEN e_conf ELSE p_conf,
                      IF easy_higher THEN "neither_valid_easy_higher"
                      ELSE "neither_valid_paddle_higher")

\* DecisionLogic with confidence compared before validity: a single valid
\* reading wins only when its confidence is not the lower one.
DecisionLogic_ConfidenceFirst(e_cleaned, e_conf, p_cleaned, p_conf) ==
    LET easy_valid == enhanced_validation(e_cleaned)
        paddle_valid == enhanced_validation(p_cleaned)
        easy_higher == e_conf >= p_conf
    IN  IF e_cleaned = p_cleaned /\ e_cleaned # EmptyText
        THEN Decision(e_cleaned,
                      calculate_confidence_boost(e_cleaned, Max(e_conf, p_conf)),
                      "both_agree")
        ELSE IF easy_valid /\ ~paddle_valid /\ easy_higher
        THEN Decision(e_cleaned, calculate_confidence_boost(e_cleaned, e_conf),
                      "easyocr_valid")
        ELSE IF paddle_valid /\ ~easy_valid /\ ~easy_higher
        THEN Decision(p_cleaned, calculate_confidence_boost(p_cleaned, p_conf),
                      "paddleocr_valid")
        ELSE IF easy_valid /\ paddle_valid
        THEN Decision(IF easy_higher THEN e_cleaned ELSE p_cleaned,
                      IF easy_higher THEN calculate_confidence_boost(e_cleaned, e_conf)
                      ELSE calculate_confidence_boost(p_cleaned, p_conf),
                      IF easy_higher THEN "both_valid_easy_higher"
                      ELSE "both_valid_paddle_higher")
        ELSE Decision(IF easy_higher THEN e_cleaned ELSE p_cleaned,
                      IF easy_higher THEN e_conf ELSE p_conf,
                      IF easy_higher THEN "neither_valid_easy_higher"
                      ELSE "neither_valid_paddle_higher")

\* DecisionLogic with > for >= where both readings are valid: a tie goes to PaddleOCR.
DecisionLogic_StrictTie(e_cleaned, e_conf, p_cleaned, p_conf) ==
    LET easy_valid == enhanced_validation(e_cleaned)
        paddle_valid == enhanced_validation(p_cleaned)
    IN  IF e_cleaned = p_cleaned /\ e_cleaned # EmptyText
        THEN Decision(e_cleaned,
                      calculate_confidence_boost(e_cleaned, Max(e_conf, p_conf)),
                      "both_agree")
        ELSE IF easy_valid /\ ~paddle_valid
        THEN Decision(e_cleaned, calculate_confidence_boost(e_cleaned, e_conf),
                      "easyocr_valid")
        ELSE IF paddle_valid /\ ~easy_valid
        THEN Decision(p_cleaned, calculate_confidence_boost(p_cleaned, p_conf),
                      "paddleocr_valid")
        ELSE IF easy_valid /\ paddle_valid
        THEN Decision(IF e_conf > p_conf THEN e_cleaned ELSE p_cleaned,
                      IF e_conf > p_conf THEN calculate_confidence_boost(e_cleaned, e_conf)
                      ELSE calculate_confidence_boost(p_cleaned, p_conf),
                      IF e_conf > p_conf THEN "both_valid_easy_higher"
                      ELSE "both_valid_paddle_higher")
        ELSE Decision(IF e_conf >= p_conf THEN e_cleaned ELSE p_cleaned,
                      IF e_conf >= p_conf THEN e_conf ELSE p_conf,
                      IF e_conf >= p_conf THEN "neither_valid_easy_higher"
                      ELSE "neither_valid_paddle_higher")

\* DecisionLogic with the confidence adjusted in the last branch too.
DecisionLogic_AdjustNeither(e_cleaned, e_conf, p_cleaned, p_conf) ==
    LET easy_valid == enhanced_validation(e_cleaned)
        paddle_valid == enhanced_validation(p_cleaned)
        easy_higher == e_conf >= p_conf
    IN  IF e_cleaned = p_cleaned /\ e_cleaned # EmptyText
        THEN Decision(e_cleaned,
                      calculate_confidence_boost(e_cleaned, Max(e_conf, p_conf)),
                      "both_agree")
        ELSE IF easy_valid /\ ~paddle_valid
        THEN Decision(e_cleaned, calculate_confidence_boost(e_cleaned, e_conf),
                      "easyocr_valid")
        ELSE IF paddle_valid /\ ~easy_valid
        THEN Decision(p_cleaned, calculate_confidence_boost(p_cleaned, p_conf),
                      "paddleocr_valid")
        ELSE IF easy_valid /\ paddle_valid
        THEN Decision(IF easy_higher THEN e_cleaned ELSE p_cleaned,
                      IF easy_higher THEN calculate_confidence_boost(e_cleaned, e_conf)
                      ELSE calculate_confidence_boost(p_cleaned, p_conf),
                      IF easy_higher THEN "both_valid_easy_higher"
                      ELSE "both_valid_paddle_higher")
        ELSE Decision(IF easy_higher THEN e_cleaned ELSE p_cleaned,
                      IF easy_higher THEN calculate_confidence_boost(e_cleaned, e_conf)
                      ELSE calculate_confidence_boost(p_cleaned, p_conf),
                      IF easy_higher THEN "neither_valid_easy_higher"
                      ELSE "neither_valid_paddle_higher")

\* DecisionLogic with > and < in the last branch: on a tie between two invalid
\* readings neither return is reached and the function returns None.
DecisionLogic_TieFallsThrough(e_cleaned, e_conf, p_cleaned, p_conf) ==
    LET easy_valid == enhanced_validation(e_cleaned)
        paddle_valid == enhanced_validation(p_cleaned)
        easy_higher == e_conf >= p_conf
    IN  IF e_cleaned = p_cleaned /\ e_cleaned # EmptyText
        THEN Decision(e_cleaned,
                      calculate_confidence_boost(e_cleaned, Max(e_conf, p_conf)),
                      "both_agree")
        ELSE IF easy_valid /\ ~paddle_valid
        THEN Decision(e_cleaned, calculate_confidence_boost(e_cleaned, e_conf),
                      "easyocr_valid")
        ELSE IF paddle_valid /\ ~easy_valid
        THEN Decision(p_cleaned, calculate_confidence_boost(p_cleaned, p_conf),
                      "paddleocr_valid")
        ELSE IF easy_valid /\ paddle_valid
        THEN Decision(IF easy_higher THEN e_cleaned ELSE p_cleaned,
                      IF easy_higher THEN calculate_confidence_boost(e_cleaned, e_conf)
                      ELSE calculate_confidence_boost(p_cleaned, p_conf),
                      IF easy_higher THEN "both_valid_easy_higher"
                      ELSE "both_valid_paddle_higher")
        ELSE IF e_conf > p_conf
        THEN Decision(e_cleaned, e_conf, "neither_valid_easy_higher")
        ELSE IF e_conf < p_conf
        THEN Decision(p_cleaned, p_conf, "neither_valid_paddle_higher")
        ELSE Decision(EmptyText, 0, "none")

\* DecisionLogic returning, when only EasyOCR's text is valid, PaddleOCR's text.
DecisionLogic_WrongText(e_cleaned, e_conf, p_cleaned, p_conf) ==
    LET easy_valid == enhanced_validation(e_cleaned)
        paddle_valid == enhanced_validation(p_cleaned)
    IN  IF e_cleaned = p_cleaned /\ e_cleaned # EmptyText
        THEN Decision(e_cleaned,
                      calculate_confidence_boost(e_cleaned, Max(e_conf, p_conf)),
                      "both_agree")
        ELSE IF easy_valid /\ ~paddle_valid
        THEN Decision(p_cleaned,
                      calculate_confidence_boost(e_cleaned, e_conf), "easyocr_valid")
        ELSE IF paddle_valid /\ ~easy_valid
        THEN Decision(p_cleaned,
                      calculate_confidence_boost(p_cleaned, p_conf), "paddleocr_valid")
        ELSE IF easy_valid /\ paddle_valid
        THEN IF e_conf >= p_conf
             THEN Decision(e_cleaned,
                           calculate_confidence_boost(e_cleaned, e_conf),
                           "both_valid_easy_higher")
             ELSE Decision(p_cleaned,
                           calculate_confidence_boost(p_cleaned, p_conf),
                           "both_valid_paddle_higher")
        ELSE IF e_conf >= p_conf
        THEN Decision(e_cleaned, e_conf, "neither_valid_easy_higher")
        ELSE Decision(p_cleaned, p_conf, "neither_valid_paddle_higher")

\* The decision logic of smart_ensemble_decision, on the two cleaned texts.
DecisionLogic(e_cleaned, e_conf, p_cleaned, p_conf) ==
    LET easy_valid == enhanced_validation(e_cleaned)
        paddle_valid == enhanced_validation(p_cleaned)
    IN  IF e_cleaned = p_cleaned /\ e_cleaned # EmptyText
        THEN Decision(e_cleaned,
                      calculate_confidence_boost(e_cleaned, Max(e_conf, p_conf)),
                      "both_agree")
        ELSE IF easy_valid /\ ~paddle_valid
        THEN Decision(e_cleaned,
                      calculate_confidence_boost(e_cleaned, e_conf), "easyocr_valid")
        ELSE IF paddle_valid /\ ~easy_valid
        THEN Decision(p_cleaned,
                      calculate_confidence_boost(p_cleaned, p_conf), "paddleocr_valid")
        ELSE IF easy_valid /\ paddle_valid
        THEN IF e_conf >= p_conf
             THEN Decision(e_cleaned,
                           calculate_confidence_boost(e_cleaned, e_conf),
                           "both_valid_easy_higher")
             ELSE Decision(p_cleaned,
                           calculate_confidence_boost(p_cleaned, p_conf),
                           "both_valid_paddle_higher")
        ELSE IF e_conf >= p_conf
        THEN Decision(e_cleaned, e_conf, "neither_valid_easy_higher")
        ELSE Decision(p_cleaned, p_conf, "neither_valid_paddle_higher")

(***************************************************************************)
(* Inputs                                                                  *)
(***************************************************************************)
MaxLen == 5

HeadLen == 3

MaxPad == 8

SeqsUpTo(S, n) == UNION {[1..k -> S] : k \in 0..n}

RECURSIVE Rep(_, _)
Rep(c, n) == IF n = 0 THEN << >> ELSE <<c>> \o Rep(c, n - 1)

\* Digits with and without a letter look-alike, a plain letter and a look-alike letter.
ShortChars == {"0", "1", "8", "9", "A", "O"}

ShortTexts == SeqsUpTo(ShortChars, MaxLen)

\* Lower case, white space and a line end among plate characters.
NoisyChars == {"1", "A", "a", "\n"}

NoisyTexts == SeqsUpTo(NoisyChars, MaxLen)

\* Readings in the shape <province><letters><digits>, with misread characters.
ProvinceParts == {<<"3","4">>, <<"0","6">>, <<"O","6">>, <<"D","1">>,
                  <<"0","0">>, <<"9","9">>, <<"I","0">>}

LetterParts == {<<"A">>, <<"A","B">>, <<"A","B","C">>, <<"8">>, <<"A","0">>,
                <<"B","5","Z">>}

DigitParts == {<<"1">>, <<"1","2">>, <<"1","2","3">>, <<"1","2","3","4">>, <<"O">>,
               <<"1","S">>, <<"I","2","Z">>, <<"1","2","G","4">>}

PlateTexts == {p \o l \o d : p \in ProvinceParts, l \in LetterParts, d \in DigitParts}

\* Readings in the shape <letters><digits><letters> of the special formats.
LeadParts == {<<"A">>, <<"A","B">>, <<"A","B","C">>, <<"0","B">>, <<"X","Q">>}

MiddleParts == {<<"1","2">>, <<"9","9">>, <<"1","2","3">>, <<"1","O","3">>,
                <<"S","2","3">>, <<"1","2","3","4">>}

TrailParts == {<< >>, <<"D">>, <<"1">>, <<"B","C">>, <<"Z","Z">>}

SpecialTexts == {a \o b \o c : a \in LeadParts, b \in MiddleParts, c \in TrailParts}

\* Long readings: a free head, then letters, then up to MaxPad digits.
HeadChars == {"0", "1", "A", "O"}

LongTexts == {h \o Rep("A", i) \o Rep("1", j) :
                 h \in [1..HeadLen -> HeadChars], i \in 0..2, j \in 0..MaxPad}

\* The readings of the documented scenarios.
Scenario1Text == <<" ", "3", "4", " ", "a", "b", "-", "1", "2", " ">>

Scenario2TextA == <<"0", "6", "A", "B", "C", "1", "2", "3">>

Scenario2TextB == <<"O", "6", "A", "B", "C", "1", "2", "3">>

Scenario3TextA == <<"3", "4", "A", "B", "1", "2", "3">>

Scenario3TextB == <<"X", "Q", "9", "9", "Z", "Z">>

Scenario5Text == <<"X", "Q", "W", "7", "K", "#", "J", "9", "P", "L", "M", "2", "V", "T">>

ScenarioTexts == {Scenario1Text, Scenario2TextA, Scenario2TextB, Scenario3TextA,
                  Scenario3TextB, Scenario5Text, EmptyText, NoneText}

RawTexts == ShortTexts \cup NoisyTexts \cup PlateTexts \cup SpecialTexts
            \cup LongTexts \cup ScenarioTexts

NoDecision == Decision(EmptyText, 0, "none")

(***************************************************************************)
(* The text functions, one call each.  clean_plate_text and                *)
(* validate_turkish_plate are the entry points of app/ocr.py.              *)
(***************************************************************************)
\* The variables of the calls a specification does not make keep these values.
NoResults ==
    /\ cleaned = EmptyText
    /\ recleaned = EmptyText
    /\ valid = FALSE

NoCorrection ==
    /\ hypotheses = << >>
    /\ best_analysis = UnknownAnalysis
    /\ corrected_text = EmptyText

NoBoost ==
    /\ input_confidence = 0
    /\ adjusted_confidence = 0

NoEnsemble ==
    /\ easyocr_text = EmptyText
    /\ easyocr_conf = 0
    /\ paddleocr_text = EmptyText
    /\ paddleocr_conf = 0
    /\ easy_cleaned = EmptyText
    /\ paddle_cleaned = EmptyText
    /\ decision = NoDecision

NoOutcome == [raises |-> FALSE, results |-> << >>]

NoEngines ==
    /\ easy_outcome = NoOutcome
    /\ paddle_outcome = NoOutcome
    /\ ensemble_source = ""

\* The class OCRManager before any construction: _instance None, _lock free,
\* no instance made, the engines never built, no construction failed.
NoManager ==
    [instance |-> 0, lock |-> 0, objects |-> << >>, built |-> 0, errors |-> {}]

NoCalls ==
    /\ calls = << >>
    /\ returned = << >>
    /\ manager = NoManager

Init ==
    /\ pc = "ready"
    /\ text \in RawTexts
    /\ NoResults
    /\ NoCorrection
    /\ NoBoost
    /\ NoEnsemble
    /\ NoEngines
    /\ NoCalls

\* clean_plate_text(text)
CleanPlateText ==
    /\ pc = "ready"
    /\ cleaned' = enhanced_clean_text(text)
    /\ pc' = "cleaned"
    /\ UNCHANGED <<text, recleaned, valid, correctionVars, boostVars, ensembleVars, engineVars, callVars>>

\* clean_plate_text applied to a text that is already cleaned
CleanAgain ==
    /\ pc = "cleaned"
    /\ recleaned' = enhanced_clean_text(cleaned)
    /\ pc' = "recleaned"
    /\ UNCHANGED <<text, cleaned, valid, correctionVars, boostVars, ensembleVars, engineVars, callVars>>

\* validate_turkish_plate(text)
ValidateTurkishPlate ==
    /\ pc = "ready"
    /\ valid' = enhanced_validation(text)
    /\ pc' = "validated"
    /\ UNCHANGED <<text, cleaned, recleaned, correctionVars, boostVars, ensembleVars, engineVars, callVars>>

\* The correction step of enhanced_clean_text: context_aware_correction on the
\* text after the basic cleanup.  best_analysis is the hypothesis that
\* analyze_plate_pattern selects for it; texts shorter than 5 are returned
\* before any analysis.
ContextAwareCorrection ==
    /\ pc = "ready"
    /\ text # NoneText
    /\ best_analysis' = IF Len(BasicCleanup(text)) < 5 THEN UnknownAnalysis
                        ELSE analyze_plate_pattern(BasicCleanup(text))
    /\ corrected_text' = context_aware_correction(BasicCleanup(text))
    /\ pc' = "corrected"
    /\ UNCHANGED <<hypotheses, textVars, boostVars, ensembleVars, engineVars, callVars>>

\* validate_turkish_plate applied to the text clean_plate_text returned
ValidateCleaned ==
    /\ pc = "cleaned"
    /\ valid' = enhanced_validation(cleaned)
    /\ pc' = "revalidated"
    /\ UNCHANGED <<text, cleaned, recleaned, correctionVars, boostVars, ensembleVars,
                   engineVars, callVars>>

Next ==
    \/ CleanPlateText
    \/ CleanAgain
    \/ ValidateTurkishPlate
    \/ ContextAwareCorrection
    \/ ValidateCleaned

Spec == Init /\ [][Next]_vars

(***************************************************************************)
(* smart_ensemble_decision, one call on two readings                       *)
(***************************************************************************)
EnsLen == 5

EnsChars == {"1", "A"}

EnsembleTexts == ScenarioTexts \cup [1..EnsLen -> EnsChars]

\* Confidence pairs in thousandths: equal, engine A higher, engine B higher; with
\* zero, a value below the penalty floor, values a boost caps, and one.
ConfPairs == {<<0, 0>>, <<800, 800>>, <<1000, 1000>>,
              <<550, 500>>, <<900, 800>>, <<1000, 50>>, <<50, 0>>,
              <<500, 550>>, <<800, 900>>, <<50, 1000>>, <<0, 50>>}

InitEnsemble ==
    /\ pc = "ready"
    /\ text = EmptyText
    /\ NoResults
    /\ NoCorrection
    /\ NoBoost
    /\ easyocr_text \in EnsembleTexts
    /\ paddleocr_text \in EnsembleTexts
    /\ \E c \in ConfPairs : easyocr_conf = c[1] /\ paddleocr_conf = c[2]
    /\ easy_cleaned = EmptyText
    /\ paddle_cleaned = EmptyText
    /\ decision = NoDecision
    /\ NoEngines
    /\ NoCalls

\* smart_ensemble_decision(easyocr_text, easyocr_conf, paddleocr_text, paddleocr_conf)
SmartEnsembleDecision ==
    /\ pc = "ready"
    /\ easy_cleaned' = enhanced_clean_text(easyocr_text)
    /\ paddle_cleaned' = enhanced_clean_text(paddleocr_text)
    /\ decision' = DecisionLogic(easy_cleaned', easyocr_conf,
                                 paddle_cleaned', paddleocr_conf)
    /\ pc' = "decided"
    /\ UNCHANGED <<textVars, correctionVars, boostVars,
                   easyocr_text, easyocr_conf, paddleocr_text, paddleocr_conf,
                   engineVars, callVars>>

NextEnsemble == SmartEnsembleDecision

EnsembleSpec == InitEnsemble /\ [][NextEnsemble]_vars

(***************************************************************************)
(* Claims about smart_ensemble_decision (EnsembleSpec)                     *)
(***************************************************************************)
\* easy_cleaned and paddle_cleaned hold enhanced_clean_text of the two readings
\* (lines 457-458); the validity of each, and the agreement test, in their terms.
ValidA == enhanced_validation(easy_cleaned)

ValidB == enhanced_validation(paddle_cleaned)

Agree == easy_cleaned = paddle_cleaned /\ easy_cleaned # EmptyText

\* C1: agreement dominance.  When the two readings clean to the same non-empty
\* text, the decision is that text with tag both_agree and confidence
\* ConfidenceAdjuster(text, max(confA, confB)), whatever the confidences and
\* whether or not the text is valid.
C1_AgreementDominance ==
    (pc = "decided" /\ Agree) =>
        decision = Decision(easy_cleaned,
                            calculate_confidence_boost(easy_cleaned,
                                Max(easyocr_conf, paddleocr_conf)),
                            "both_agree")

\* Two different raw readings clean to the same text, and the less confident
\* engine is EasyOCR: the decision is that text, tagged both_agree.
C1_Witness ==
    /\ pc = "decided"
    /\ easyocr_text # paddleocr_text
    /\ Agree
    /\ easyocr_conf < paddleocr_conf
    /\ decision.tag = "both_agree"
    /\ decision.final_text = easy_cleaned

\* C2: single-valid rule.  When exactly one cleaned text is valid the decision
\* is that engine's cleaned text, its confidence passed through
\* ConfidenceAdjuster, tagged easyocr_valid or paddleocr_valid, even when the
\* other engine's confidence is higher.
C2_SingleValid ==
    /\ (pc = "decided" /\ ValidA /\ ~ValidB) =>
           decision = Decision(easy_cleaned,
                               calculate_confidence_boost(easy_cleaned, easyocr_conf),
                               "easyocr_valid")
    /\ (pc = "decided" /\ ValidB /\ ~ValidA) =>
           decision = Decision(paddle_cleaned,
                               calculate_confidence_boost(paddle_cleaned, paddleocr_conf),
                               "paddleocr_valid")

\* Only engine A is valid and engine B is the more confident one.
C2_Witness ==
    /\ pc = "decided"
    /\ ValidA /\ ~ValidB
    /\ paddle_cleaned # EmptyText
    /\ paddleocr_conf > easyocr_conf
    /\ decision.tag = "easyocr_valid"
    /\ decision.final_text = easy_cleaned

\* C3: both-valid rule.  When both cleaned texts are valid and differ, the
\* decision is the cleaned text of the engine with the higher confidence,
\* EasyOCR on a tie, with the winner's confidence passed through
\* ConfidenceAdjuster and tag both_valid_easy_higher / both_valid_paddle_higher.
C3_BothValid ==
    (pc = "decided" /\ ValidA /\ ValidB /\ easy_cleaned # paddle_cleaned) =>
        IF easyocr_conf >= paddleocr_conf
        THEN decision = Decision(easy_cleaned,
                                 calculate_confidence_boost(easy_cleaned, easyocr_conf),
                                 "both_valid_easy_higher")
        ELSE decision = Decision(paddle_cleaned,
                                 calculate_confidence_boost(paddle_cleaned, paddleocr_conf),
                                 "both_valid_paddle_higher")

\* Two different valid texts with equal confidences: EasyOCR wins.
C3_Witness ==
    /\ pc = "decided"
    /\ ValidA /\ ValidB /\ easy_cleaned # paddle_cleaned
    /\ easyocr_conf = paddleocr_conf
    /\ decision.tag = "both_valid_easy_higher"
    /\ decision.final_text = easy_cleaned

\* C4: neither-valid rule.  When neither cleaned text is valid and the texts do
\* not agree on a non-empty string, the decision is the cleaned text of the
\* engine with the higher confidence (EasyOCR on a tie) with that engine's input
\* confidence unchanged and tag neither_valid_easy_higher /
\* neither_valid_paddle_higher; two empty readings of confidence 0 give
\* ("", 0.0, neither_valid_easy_higher).
C4_NeitherValid ==
    (pc = "decided" /\ ~ValidA /\ ~ValidB /\ ~Agree) =>
        IF easyocr_conf >= paddleocr_conf
        THEN decision = Decision(easy_cleaned, easyocr_conf, "neither_valid_easy_higher")
        ELSE decision = Decision(paddle_cleaned, paddleocr_conf, "neither_valid_paddle_higher")

\* Scenario 4: two empty readings of confidence 0.
C4_Witness ==
    /\ pc = "decided"
    /\ easyocr_text = EmptyText /\ paddleocr_text = EmptyText
    /\ easyocr_conf = 0 /\ paddleocr_conf = 0
    /\ decision = Decision(EmptyText, 0, "neither_valid_easy_higher")

(***************************************************************************)
(* Claims about enhanced_clean_text and enhanced_validation (Spec)         *)
(***************************************************************************)
\* The argument uppercased, with every character outside [A-Z0-9] removed.
Stripped == SelectSeq(Upper(text), IsAlnumChar)

\* C5: idempotence of normalization.  Cleaning a cleaned text gives the same
\* text: enhanced_clean_text(enhanced_clean_text(x)) = enhanced_clean_text(x).
C5_Idempotence == pc = "recleaned" => recleaned = cleaned

\* C6, as stated: the cleaned text is the argument uppercased with every
\* character outside [A-Z0-9] removed, or empty when that has fewer than 2 or
\* more than 10 characters, and nothing else is changed.
C6_StripOnly ==
    (pc = "cleaned" /\ text # NoneText) =>
        cleaned = IF Len(Stripped) < 2 \/ Len(Stripped) > 10 THEN EmptyText
                  ELSE Stripped

\* The only replacements of a character by a look-alike that cleaning makes.
LookAlike(a, b) ==
    <<a, b>> \in {<<"O", "0">>, <<"I", "1">>, <<"S", "5">>, <<"Z", "2">>,
                  <<"D", "0">>, <<"0", "O">>, <<"1", "I">>, <<"5", "S">>,
                  <<"2", "Z">>, <<"8", "B">>, <<"6", "G">>}

\* C6, amended: the cleaned text is empty when the stripped, uppercased argument
\* has fewer than 2 or more than 10 characters; it is that stripped text when it
\* has 2 to 4 characters; and when it has 5 to 10 characters the cleaned text has
\* the same length and differs from it only where a character was replaced by
\* its OCR look-alike.
C6_StripAndCorrect ==
    (pc = "cleaned" /\ text # NoneText) =>
        IF Len(Stripped) < 2 \/ Len(Stripped) > 10 THEN cleaned = EmptyText
        ELSE IF Len(Stripped) < 5 THEN cleaned = Stripped
        ELSE /\ Len(cleaned) = Len(Stripped)
             /\ \A i \in 1..Len(cleaned) :
                    cleaned[i] = Stripped[i] \/ LookAlike(Stripped[i], cleaned[i])

\* A reading whose stripped text has 5 to 10 characters and in which cleaning
\* replaces a character by its look-alike.
C6_Witness ==
    /\ pc = "cleaned"
    /\ text # NoneText
    /\ Len(Stripped) \in 5..10
    /\ Len(cleaned) = Len(Stripped)
    /\ \E i \in 1..Len(cleaned) : LookAlike(Stripped[i], cleaned[i])

\* C7: bounded normalized form.  The cleaned text is empty or a text over
\* [A-Z0-9] of 2 to 10 characters, and an argument with more than 10
\* alphanumeric characters is cleaned to the empty text.
C7_BoundedForm ==
    (pc = "cleaned") =>
        /\ \/ cleaned = EmptyText
           \/ Len(cleaned) \in 2..10 /\ AllIn(cleaned, LETTERS \cup DIGITS)
        /\ (text # NoneText /\ Len(Stripped) > 10) => cleaned = EmptyText

\* Scenario 5: a reading of 13 alphanumeric characters is cleaned to the empty text.
C7_Witness ==
    /\ pc = "cleaned"
    /\ text = Scenario5Text
    /\ Len(Stripped) = 13
    /\ cleaned = EmptyText

\* The number a two-digit prefix denotes.
DIGIT_SEQ == <<"0", "1", "2", "3", "4", "5", "6", "7", "8", "9">>

DigitValue(c) == (CHOOSE i \in DOMAIN DIGIT_SEQ : DIGIT_SEQ[i] = c) - 1

ProvinceNumber(s) == 10 * DigitValue(s[1]) + DigitValue(s[2])

\* The three grammars, as the claims word them.
StandardGrammar(s) == \E nl \in 1..3, nn \in 1..4 : StandardShape(s, nl, nn)

DiplomaticGrammar(s) ==
    \E a \in 2..3, b \in 3..4, c \in 0..1 : SpecialShape(s, a, b, c)

LegacyGrammar(s) ==
    \E a \in 1..2, b \in 2..4, c \in 1..2 : SpecialShape(s, a, b, c)

\* C8: FormatValidator characterization.  enhanced_validation(s) is true if and
\* only if s matches a standard layout and s[0:2] is a valid province code, or
\* s matches the diplomatic grammar, or s matches the legacy grammar.
C8_Characterization ==
    (pc = "validated" /\ text # NoneText) =>
        (valid <=> \/ StandardGrammar(text) /\ ProvinceNumber(text) \in 1..81
                   \/ DiplomaticGrammar(text)
                   \/ LegacyGrammar(text))

C10_ProvinceWellFormed ==
    (pc = "validated" /\ valid /\ Len(text) >= 2 /\ AllIn(SubSeq(text, 1, 2), DIGITS)) =>
        ProvinceNumber(text) \in 1..81

\* A plate of the standard grammar is accepted, and its province is 34.
C10_Witness ==
    /\ pc = "validated"
    /\ valid
    /\ StandardGrammar(text)
    /\ ProvinceNumber(text) = 34

(***************************************************************************)
(* calculate_confidence_boost, one call on a cleaned text, as              *)
(* smart_ensemble_decision calls it                                        *)
(***************************************************************************)
\* Readings of every layout, with and without misread characters.
BoostTexts == PlateTexts \cup SpecialTexts \cup ScenarioTexts

\* Confidences in thousandths: zero, below, at and above the penalty floor,
\* mid, either side of the value each boost starts to cap at, and one.
BoostConfs == {0, 50, 100, 110, 500, 760, 770, 860, 870, 1000}

InitBoost ==
    /\ pc = "ready"
    /\ text \in BoostTexts
    /\ input_confidence \in BoostConfs
    /\ adjusted_confidence = 0
    /\ NoResults
    /\ NoCorrection
    /\ NoEnsemble
    /\ NoEngines
    /\ NoCalls

\* calculate_confidence_boost(cleaned, input_confidence)
CalculateConfidenceBoost ==
    /\ pc = "cleaned"
    /\ adjusted_confidence' = calculate_confidence_boost(cleaned, input_confidence)
    /\ pc' = "boosted"
    /\ UNCHANGED <<textVars, correctionVars, input_confidence, ensembleVars, engineVars, callVars>>

NextBoost == CleanPlateText \/ CalculateConfidenceBoost

BoostSpec == InitBoost /\ [][NextBoost]_vars

(***************************************************************************)
(* Claims about calculate_confidence_boost (BoostSpec)                     *)
(***************************************************************************)
Accepted == enhanced_validation(cleaned)

StandardWithProvince ==
    StandardGrammar(cleaned) /\ ProvinceNumber(cleaned) \in 1..81

\* C11: ConfidenceAdjuster result.  The adjusted confidence is min(1.0, 1.3 c)
\* for an accepted text of a standard layout with a valid province,
\* min(1.0, 1.15 c) for a text accepted under the diplomatic or the legacy
\* grammar, and max(0.1, 0.9 c) for a rejected text; an accepted text is of one
\* of the three grammars.
C11_AdjusterResult ==
    (pc = "boosted") =>
        /\ (Accepted /\ StandardWithProvince) =>
               adjusted_confidence = Min(1000, (13 * input_confidence) \div 10)
        /\ (Accepted /\ (DiplomaticGrammar(cleaned) \/ LegacyGrammar(cleaned))) =>
               adjusted_confidence = Min(1000, (115 * input_confidence) \div 100)
        /\ ~Accepted =>
               adjusted_confidence = Max(100, (9 * input_confidence) \div 10)
        /\ Accepted =>
               \/ StandardWithProvince
               \/ DiplomaticGrammar(cleaned)
               \/ LegacyGrammar(cleaned)

\* A text accepted under the legacy grammar at confidence 0.5 is adjusted to 0.575.
C11_Witness ==
    /\ pc = "boosted"
    /\ Accepted
    /\ LegacyGrammar(cleaned)
    /\ input_confidence = 500
    /\ adjusted_confidence = 575

\* C12: monotonic boost.  For an accepted text and a confidence c in [0, 1] the
\* adjusted confidence is at least c.
C12_MonotonicBoost ==
    (pc = "boosted" /\ Accepted) => adjusted_confidence >= input_confidence

\* An accepted text that is not of the standard layout is adjusted upwards.
C12_Witness ==
    /\ pc = "boosted"
    /\ Accepted
    /\ ~StandardWithProvince
    /\ adjusted_confidence > input_confidence

\* C13, as stated: for a rejected text and every confidence c in [0, 1],
\* c = 0 and c < 0.1 included, the adjusted confidence is at most c.
C13_MonotonicPenalty ==
    (pc = "boosted" /\ ~Accepted) => adjusted_confidence <= input_confidence

\* C13, amended: for a rejected text the adjusted confidence is at most c when
\* c is in [0.1, 1], and is the floor 0.1, above c, when c is below 0.1.
C13_PenaltyWithFloor ==
    (pc = "boosted" /\ ~Accepted) =>
        IF input_confidence >= 100
        THEN adjusted_confidence <= input_confidence
        ELSE adjusted_confidence = 100

\* A rejected, non-empty text at a confidence below 0.1 is adjusted to 0.1.
C13_Witness ==
    /\ pc = "boosted"
    /\ ~Accepted
    /\ cleaned # EmptyText
    /\ input_confidence = 50
    /\ adjusted_confidence = 100

(***************************************************************************)
(* More claims about smart_ensemble_decision (EnsembleSpec)                *)
(***************************************************************************)
\* C14: confidence range.  For input confidences in [0, 1] the final confidence
\* of the decision is in [0, 1], on every branch.
C14_ConfidenceRange ==
    (pc = "decided") =>
        /\ decision.final_confidence >= 0
        /\ decision.final_confidence <= CONF_ONE

\* A valid reading at confidence 0.8 wins and its boost, 1.04, is capped at 1.0.
C14_Witness ==
    /\ pc = "decided"
    /\ easyocr_conf = 800 /\ paddleocr_conf = 800
    /\ decision.tag = "both_valid_easy_higher"
    /\ decision.final_confidence = CONF_ONE

\* C15: an empty reading loses.  If exactly one cleaned text is empty the final
\* text is the other, non-empty, cleaned text whatever the confidences, and the
\* final text is empty only when both cleaned texts are empty.
C15_EmptyLoses ==
    (pc = "decided") =>
        /\ (easy_cleaned = EmptyText /\ paddle_cleaned # EmptyText) =>
               decision.final_text = paddle_cleaned
        /\ (paddle_cleaned = EmptyText /\ easy_cleaned # EmptyText) =>
               decision.final_text = easy_cleaned
        /\ decision.final_text = EmptyText =>
               (easy_cleaned = EmptyText /\ paddle_cleaned = EmptyText)

Scenario3 ==
    /\ easyocr_text = Scenario3TextA /\ easyocr_conf = 800
    /\ paddleocr_text = Scenario3TextB /\ paddleocr_conf = 900

\* C16, as stated: in Scenario 3, ("34AB123", 0.8) and ("XQ99ZZ", 0.9), the
\* first cleaned text is valid and the second is not, and the decision is
\* 34AB123 with tag easyocr_valid and confidence min(1.0, 0.8 * 1.3) = 1.0.
C16_Scenario3 ==
    (pc = "decided" /\ Scenario3) =>
        /\ ValidA /\ ~ValidB
        /\ decision = Decision(Scenario3TextA, CONF_ONE, "easyocr_valid")

\* C16, amended: in Scenario 3 both cleaned texts are valid, XQ99ZZ under the
\* legacy grammar, and the decision is XQ99ZZ, the reading of the higher
\* confidence, with tag both_valid_paddle_higher and confidence
\* min(1.0, 0.9 * 1.15) = 1.0.
C16_Scenario3BothValid ==
    (pc = "decided" /\ Scenario3) =>
        /\ ValidA /\ ValidB
        /\ LegacyGrammar(paddle_cleaned)
        /\ decision = Decision(Scenario3TextB, Min(CONF_ONE, (900 * 115) \div 100),
                               "both_valid_paddle_higher")

\* The decision of Scenario 3.
C16_Witness ==
    /\ pc = "decided"
    /\ Scenario3
    /\ easy_cleaned = Scenario3TextA
    /\ paddle_cleaned = Scenario3TextB
    /\ decision.final_text = Scenario3TextB

\* The seven tags of a decision.
DecisionTags == {"both_agree", "easyocr_valid", "paddleocr_valid",
                 "both_valid_easy_higher", "both_valid_paddle_higher",
                 "neither_valid_easy_higher", "neither_valid_paddle_higher"}

\* C17: totality.  For every pair of readings, empty and missing (None) text
\* included, the call returns: it has a result, a text with a confidence and
\* one of the seven tags.
C17_Totality ==
    /\ pc \in {"ready", "decided"}
    /\ (pc = "decided") =>
           /\ decision.tag \in DecisionTags
           /\ AllIn(decision.final_text, LETTERS \cup DIGITS)
           /\ decision.final_confidence \in 0..CONF_ONE

\* A missing text and an empty text, at equal confidences, give a decision.
C17_Witness ==
    /\ pc = "decided"
    /\ easyocr_text = NoneText
    /\ paddleocr_text = EmptyText
    /\ easyocr_conf = paddleocr_conf
    /\ decision.tag = "neither_valid_easy_higher"
    /\ decision.final_text = EmptyText

(***************************************************************************)
(* get_all_ocr_results: easyocr_plate, paddleocr_plate, then               *)
(* smart_ensemble_decision on the two readings (app/ocr.py)                *)
(***************************************************************************)
\* A detection is <<text, confidence>>.  One is kept when its text is not blank
\* and its confidence is above 0.3.
Keep(d) == Strip(d[1]) # EmptyText /\ d[2] > 300

\* texts.sort(key=confidence, reverse=True); texts[0]: the first kept detection
\* of the greatest confidence (the sort is stable), its text stripped; '' and
\* 0.0 when none is kept.
BestReading(results) ==
    LET texts == SelectSeq(results, Keep)
    IN  IF texts = << >>
        THEN [raised |-> FALSE, text |-> EmptyText, confidence |-> 0]
        ELSE LET best == CHOOSE i \in DOMAIN texts :
                             /\ \A j \in DOMAIN texts : texts[j][2] <= texts[i][2]
                             /\ \A j \in 1..(i - 1) : texts[j][2] < texts[i][2]
             IN  [raised |-> FALSE, text |-> Strip(texts[best][1]),
                  confidence |-> texts[best][2]]

\* The handler of both functions: the exception is logged, not raised again.
FailedReading == [raised |-> FALSE, text |-> EmptyText, confidence |-> 0]

\* easyocr_plate without its try/except.
easyocr_plate_NoHandler(outcome) ==
    IF outcome.raises
    THEN [raised |-> TRUE, text |-> EmptyText, confidence |-> 0]
    ELSE BestReading(outcome.results)

\* easyocr_plate(img), given what the engine does with img.
easyocr_plate(outcome) ==
    IF outcome.raises THEN FailedReading ELSE BestReading(outcome.results)

\* paddleocr_plate(img), given what the engine does with img.
paddleocr_plate(outcome) ==
    IF outcome.raises THEN FailedReading ELSE BestReading(outcome.results)

\* The characters of a decision tag.
TagText(tag) ==
    IF tag = "both_agree"
        THEN <<"b", "o", "t", "h", "_", "a", "g", "r", "e", "e">>
    ELSE IF tag = "easyocr_valid"
        THEN <<"e", "a", "s", "y", "o", "c", "r", "_", "v", "a", "l", "i", "d">>
    ELSE IF tag = "paddleocr_valid"
        THEN <<"p", "a", "d", "d", "l", "e", "o", "c", "r", "_", "v", "a", "l", "i", "d">>
    ELSE IF tag = "both_valid_easy_higher"
        THEN <<"b", "o", "t", "h", "_", "v", "a", "l", "i", "d", "_", "e", "a", "s", "y", "_", "h", "i", "g", "h", "e", "r">>
    ELSE IF tag = "both_valid_paddle_higher"
        THEN <<"b", "o", "t", "h", "_", "v", "a", "l", "i", "d", "_", "p", "a", "d", "d", "l", "e", "_", "h", "i", "g", "h", "e", "r">>
    ELSE IF tag = "neither_valid_easy_higher"
        THEN <<"n", "e", "i", "t", "h", "e", "r", "_", "v", "a", "l", "i", "d", "_", "e", "a", "s", "y", "_", "h", "i", "g", "h", "e", "r">>
    ELSE IF tag = "neither_valid_paddle_higher"
        THEN <<"n", "e", "i", "t", "h", "e", "r", "_", "v", "a", "l", "i", "d", "_", "p", "a", "d", "d", "l", "e", "_", "h", "i", "g", "h", "e", "r">>
    ELSE << >>

\* needle in haystack, for Python strings
Contains(haystack, needle) ==
    \E i \in 0..(Len(haystack) - Len(needle)) :
        SubSeq(haystack, i + 1, i + Len(needle)) = needle

\* EnsembleSource testing for "easy" and "paddle" instead of "easyocr" and "paddleocr".
EnsembleSource_ShortNeedle(decision_reason) ==
    IF Contains(TagText(decision_reason), <<"b", "o", "t", "h", "_", "a", "g", "r", "e", "e">>) THEN "both"
    ELSE IF Contains(TagText(decision_reason), <<"e", "a", "s", "y">>) THEN "easyocr"
    ELSE IF Contains(TagText(decision_reason), <<"p", "a", "d", "d", "l", "e">>) THEN "paddleocr"
    ELSE "fallback"

\* ensemble_source, from the substring tests on decision_reason
EnsembleSource(decision_reason) ==
    IF Contains(TagText(decision_reason), <<"b", "o", "t", "h", "_", "a", "g", "r", "e", "e">>) THEN "both"
    ELSE IF Contains(TagText(decision_reason), <<"e", "a", "s", "y", "o", "c", "r">>) THEN "easyocr"
    ELSE IF Contains(TagText(decision_reason), <<"p", "a", "d", "d", "l", "e", "o", "c", "r">>) THEN "paddleocr"
    ELSE "fallback"

MaxDetections == 2

\* A plate, a padded plate, a blank text, a detection of low confidence and a
\* text that is no plate.
Detections == {<<Scenario3TextA, 800>>,
               <<(<<" ">> \o Scenario3TextB) \o <<" ">>, 900>>,
               <<(<<" ", " ">>), 950>>,
               <<Scenario2TextB, 300>>,
               <<(<<"Z", "Z", "Z">>), 500>>}

EngineOutcomes ==
    {[raises |-> TRUE, results |-> << >>]}
    \cup {[raises |-> FALSE, results |-> r] : r \in SeqsUpTo(Detections, MaxDetections)}

InitPipeline ==
    /\ pc = "start"
    /\ easy_outcome \in EngineOutcomes
    /\ paddle_outcome \in EngineOutcomes
    /\ ensemble_source = ""
    /\ text = EmptyText
    /\ NoResults
    /\ NoCorrection
    /\ NoBoost
    /\ NoEnsemble
    /\ NoCalls

\* easyocr_result = easyocr_plate(img); an exception it raised would end
\* get_all_ocr_results in its own handler.
EasyocrPlate ==
    /\ pc = "start"
    /\ LET easyocr_result == easyocr_plate(easy_outcome)
       IN  IF easyocr_result.raised
           THEN /\ pc' = "failed"
                /\ UNCHANGED <<easyocr_text, easyocr_conf>>
           ELSE /\ pc' = "easy_read"
                /\ easyocr_text' = easyocr_result.text
                /\ easyocr_conf' = easyocr_result.confidence
    /\ UNCHANGED <<textVars, correctionVars, boostVars, paddleocr_text, paddleocr_conf,
                   easy_cleaned, paddle_cleaned, decision, engineVars, callVars>>

\* paddleocr_result = paddleocr_plate(img)
PaddleocrPlate ==
    /\ pc = "easy_read"
    /\ LET paddleocr_result == paddleocr_plate(paddle_outcome)
       IN  IF paddleocr_result.raised
           THEN /\ pc' = "failed"
                /\ UNCHANGED <<paddleocr_text, paddleocr_conf>>
           ELSE /\ pc' = "ready"
                /\ paddleocr_text' = paddleocr_result.text
                /\ paddleocr_conf' = paddleocr_result.confidence
    /\ UNCHANGED <<textVars, correctionVars, boostVars, easyocr_text, easyocr_conf,
                   easy_cleaned, paddle_cleaned, decision, engineVars, callVars>>

\* ensemble_source of get_all_ocr_results: from the decision tag, or "none"
\* in the handler of an exception raised inside the try block.
ReportSource ==
    /\ pc \in {"decided", "failed"}
    /\ ensemble_source' = IF pc = "failed" THEN "none" ELSE EnsembleSource(decision.tag)
    /\ pc' = IF pc = "failed" THEN "handled" ELSE "reported"
    /\ UNCHANGED <<textVars, correctionVars, boostVars, ensembleVars,
                   easy_outcome, paddle_outcome, callVars>>

NextPipeline == EasyocrPlate \/ PaddleocrPlate \/ SmartEnsembleDecision \/ ReportSource

PipelineSpec == InitPipeline /\ [][NextPipeline]_vars

\* C19: an upstream failure becomes an empty reading.  When an engine call
\* raises, easyocr_plate / paddleocr_plate does not raise and returns '' with
\* confidence 0.0, and smart_ensemble_decision is called with a reading of each
\* engine.
C19_UpstreamFailure ==
    /\ pc \in {"start", "easy_read", "ready", "decided", "reported"}
    /\ (pc \in {"easy_read", "ready", "decided", "reported"} /\ easy_outcome.raises) =>
           (easyocr_text = EmptyText /\ easyocr_conf = 0)
    /\ (pc \in {"ready", "decided", "reported"} /\ paddle_outcome.raises) =>
           (paddleocr_text = EmptyText /\ paddleocr_conf = 0)
    /\ (pc \in {"decided", "reported"}) => decision.tag \in DecisionTags

\* EasyOCR raises, PaddleOCR reads a plate: the decision is PaddleOCR's reading.
C19_Witness ==
    /\ pc = "decided"
    /\ easy_outcome.raises
    /\ ~paddle_outcome.raises
    /\ easyocr_text = EmptyText /\ easyocr_conf = 0
    /\ decision.tag = "paddleocr_valid"
    /\ decision.final_text = paddle_cleaned

(***************************************************************************)
(* smart_ensemble_decision called from several threads, each any number of *)
(* times.  The function assigns only locals: each call has its own         *)
(* easy_cleaned and paddle_cleaned, and the module's tables are only read. *)
(***************************************************************************)
NumThreads == 2

Threads == 1..NumThreads

Reading(e_text, e_conf, p_text, p_conf) ==
    [easyocr_text |-> e_text, easyocr_conf |-> e_conf,
     paddleocr_text |-> p_text, paddleocr_conf |-> p_conf]

\* Scenario 2, Scenario 3 and a mix of the two.
CallArgs == {Reading(Scenario2TextA, 550, Scenario2TextB, 500),
             Reading(Scenario3TextA, 800, Scenario3TextB, 900),
             Reading(Scenario2TextB, 550, Scenario3TextB, 500)}

IdleFrame ==
    [pc |-> "idle", args |-> Reading(EmptyText, 0, EmptyText, 0),
     easy_cleaned |-> EmptyText, paddle_cleaned |-> EmptyText]

InitCalls ==
    /\ pc = "threads"
    /\ calls = [t \in Threads |-> IdleFrame]
    /\ returned = [a \in CallArgs |-> {}]
    /\ manager = NoManager
    /\ text = EmptyText
    /\ NoResults
    /\ NoCorrection
    /\ NoBoost
    /\ NoEnsemble
    /\ NoEngines

OtherVars == <<pc, textVars, correctionVars, boostVars, ensembleVars, engineVars, manager>>

\* Thread t calls smart_ensemble_decision(*a).
Call(t) ==
    /\ calls[t].pc = "idle"
    /\ \E a \in CallArgs :
           calls' = [calls EXCEPT ![t] = [IdleFrame EXCEPT !.pc = "called", !.args = a]]
    /\ UNCHANGED <<returned, OtherVars>>

\* CleanEasy with easy_cleaned a variable of the module: every frame sees it.
CleanEasy_Shared(t) ==
    /\ calls[t].pc = "called"
    /\ calls' = [u \in Threads |->
                    [calls[u] EXCEPT
                        !.easy_cleaned = enhanced_clean_text(calls[t].args.easyocr_text),
                        !.pc = IF u = t THEN "easy_cleaned" ELSE @]]
    /\ UNCHANGED <<returned, OtherVars>>

\* easy_cleaned = enhanced_clean_text(easyocr_text)
CleanEasy(t) ==
    /\ calls[t].pc = "called"
    /\ calls' = [calls EXCEPT
                    ![t].easy_cleaned = enhanced_clean_text(calls[t].args.easyocr_text),
                    ![t].pc = "easy_cleaned"]
    /\ UNCHANGED <<returned, OtherVars>>

\* paddle_cleaned = enhanced_clean_text(paddleocr_text)
CleanPaddle(t) ==
    /\ calls[t].pc = "easy_cleaned"
    /\ calls' = [calls EXCEPT
                    ![t].paddle_cleaned = enhanced_clean_text(calls[t].args.paddleocr_text),
                    ![t].pc = "both_cleaned"]
    /\ UNCHANGED <<returned, OtherVars>>

\* The decision logic and the return; returned records the decision.
Return(t) ==
    /\ calls[t].pc = "both_cleaned"
    /\ returned' = [returned EXCEPT ![calls[t].args] =
                       @ \cup {DecisionLogic(calls[t].easy_cleaned,
                                             calls[t].args.easyocr_conf,
                                             calls[t].paddle_cleaned,
                                             calls[t].args.paddleocr_conf)}]
    /\ calls' = [calls EXCEPT ![t] = IdleFrame]
    /\ UNCHANGED OtherVars

NextCalls == \E t \in Threads : Call(t) \/ CleanEasy(t) \/ CleanPaddle(t) \/ Return(t)

CallsSpec == InitCalls /\ [][NextCalls]_vars

OnlyObviousFixes(before, after) ==
    /\ Len(after) = Len(before)
    /\ \A i \in 1..Len(before) :
           after[i] = IF before[i] = "O" THEN "0"
                      ELSE IF before[i] = "I" THEN "1"
                      ELSE before[i]

\* C20: correction threshold.  For every normalized text of length >= 5,
\* context_aware_correction returns a text; it is the layout-specific
\* correction of the selected hypothesis when that hypothesis's score is
\* strictly greater than 0.6, and otherwise (a score of exactly 0.6 and the
\* no-hypothesis case included) the text with only O replaced by 0 and I by 1.
C20_CorrectionThreshold ==
    (pc = "corrected" /\ Len(BasicCleanup(text)) >= 5) =>
        /\ AllIn(corrected_text, LETTERS \cup DIGITS)
        /\ IF best_analysis.confidence > THRESHOLD
           THEN corrected_text =
                    apply_corrections_based_on_analysis(BasicCleanup(text), best_analysis)
           ELSE OnlyObviousFixes(BasicCleanup(text), corrected_text)

\* A legacy-shaped text whose selected hypothesis scores exactly 0.6: the
\* conservative correction replaces an O that the legacy correction would keep.
C20_Witness ==
    /\ pc = "corrected"
    /\ Len(BasicCleanup(text)) >= 5
    /\ best_analysis.type = "old"
    /\ best_analysis.confidence = THRESHOLD
    /\ corrected_text # BasicCleanup(text)
    /\ corrected_text # apply_corrections_based_on_analysis(BasicCleanup(text), best_analysis)

(***************************************************************************)
(* analyze_plate_pattern on normalized texts                               *)
(***************************************************************************)
AnalysisTexts == ShortTexts \cup PlateTexts \cup SpecialTexts
                 \cup {Scenario2TextA, Scenario2TextB, Scenario3TextA, Scenario3TextB}

InitAnalysis ==
    /\ pc = "normalized"
    /\ text \in AnalysisTexts
    /\ NoResults
    /\ NoCorrection
    /\ NoBoost
    /\ NoEnsemble
    /\ NoEngines
    /\ NoCalls

\* analyze_plate_pattern(text): the results list it builds and the one it returns
AnalyzePlatePattern ==
    /\ pc = "normalized"
    /\ hypotheses' = AnalysisResults(text)
    /\ best_analysis' = analyze_plate_pattern(text)
    /\ pc' = "analyzed"
    /\ UNCHANGED <<corrected_text, textVars, boostVars, ensembleVars, engineVars, callVars>>

NextAnalysis == AnalyzePlatePattern

AnalysisSpec == InitAnalysis /\ [][NextAnalysis]_vars

\* The exact decimal value of a score, in 1/10000.
ExactValue(key) == key \div 4

\* The stage that generated a hypothesis.
IsDirect(h) == h.type = "standard" /\ ~h.has_corrected_text

IsVariant(h) == h.type = "standard" /\ h.has_corrected_text

\* Generation order: direct standard, variant, diplomatic, legacy.
Stage(h) ==
    IF IsDirect(h) THEN 1
    ELSE IF IsVariant(h) THEN 2
    ELSE IF h.type = "diplomatic" THEN 3
    ELSE 4

\* C21: hypothesis selection.  analyze_plate_pattern returns a hypothesis of the
\* maximum score among all those generated; among several of the maximum score
\* it returns the first in generation order; with no hypothesis it returns
\* type 'unknown' with score 0.
C21_Selection ==
    pc = "analyzed" =>
        /\ \A i, j \in DOMAIN hypotheses :
               i < j => Stage(hypotheses[i]) <= Stage(hypotheses[j])
        /\ IF hypotheses = << >>
           THEN best_analysis.type = "unknown" /\ best_analysis.confidence = 0
           ELSE \E i \in DOMAIN hypotheses :
                    /\ best_analysis = hypotheses[i]
                    /\ \A j \in DOMAIN hypotheses :
                           hypotheses[j].confidence <= hypotheses[i].confidence
                    /\ \A j \in 1..(i - 1) :
                           hypotheses[j].confidence < hypotheses[i].confidence

\* Two different hypotheses share the maximum score and the earlier is returned.
C21_Witness ==
    /\ pc = "analyzed"
    /\ \E i, j \in DOMAIN hypotheses :
           /\ i < j
           /\ hypotheses[i] # hypotheses[j]
           /\ hypotheses[i].confidence = hypotheses[j].confidence
           /\ \A k \in DOMAIN hypotheses :
                  hypotheses[k].confidence <= hypotheses[i].confidence
           /\ best_analysis = hypotheses[i]


\* 'confidence' of the twelve layouts, in tenths: row letters, column numbers.
LAYOUT_WEIGHT == << <<7, 8, 9, 9>>, <<8, 9, 9, 8>>, <<9, 8, 7, 6>> >>

\* 0.5, plus 0.3 for a valid province, plus the layout bonus; in hundredths.
DirectSum(h) ==
    50
    + (IF ProvinceNumber(h.groups[1]) \in 1..81 THEN 30 ELSE 0)
    + (IF Len(h.groups[2]) = 2 /\ Len(h.groups[3]) \in {2, 3} THEN 20
       ELSE IF Len(h.groups[2]) = 3 /\ Len(h.groups[3]) = 1 THEN 15
       ELSE IF Len(h.groups[2]) = 1 /\ Len(h.groups[3]) = 4 THEN 15
       ELSE 0)

\* C22 as stated: the score of a direct match is 0.5, plus 0.3 for a valid
\* province, plus the layout bonus, with no other factor applied.
C22_DirectScore ==
    pc = "analyzed" =>
        \A i \in DOMAIN hypotheses :
            IsDirect(hypotheses[i]) =>
                ExactValue(hypotheses[i].confidence) = DirectSum(hypotheses[i]) * 100

\* C22, amended: the score of a direct match is 0.5, plus 0.3 for a valid
\* province, plus the layout bonus, multiplied by the weight of the matched
\* layout (0.6 to 0.9).
C22_WeightedDirectScore ==
    pc = "analyzed" =>
        \A i \in DOMAIN hypotheses :
            IsDirect(hypotheses[i]) =>
                ExactValue(hypotheses[i].confidence) =
                    DirectSum(hypotheses[i])
                    * LAYOUT_WEIGHT[Len(hypotheses[i].groups[2])][Len(hypotheses[i].groups[3])]
                    * 10

\* A direct match of two letters and two digits with a valid province:
\* (0.5 + 0.3 + 0.2) * 0.9 = 0.9.
C22_Witness ==
    /\ pc = "analyzed"
    /\ \E i \in DOMAIN hypotheses :
           /\ IsDirect(hypotheses[i])
           /\ DirectSum(hypotheses[i]) = 100
           /\ ExactValue(hypotheses[i].confidence) = 9000


\* 0.4, plus 0.3 for a valid province, plus the correction score of a variant
\* that has the hypothesis's text; in hundredths.
VariantSums(h) ==
    LET variants == generate_correction_variants(text)
    IN  {40 + (IF ProvinceNumber(h.groups[1]) \in 1..81 THEN 30 ELSE 0)
            + variants[v].correction_score.value :
         v \in {u \in DOMAIN variants : variants[u].text = h.corrected_text}}

\* C23 as stated: the score of a variant match is (0.4, plus 0.3 for a valid
\* province, plus the variant's correction score) times 0.9, with no other
\* factor applied.
C23_VariantScore ==
    pc = "analyzed" =>
        \A i \in DOMAIN hypotheses :
            IsVariant(hypotheses[i]) =>
                \E sum \in VariantSums(hypotheses[i]) :
                    ExactValue(hypotheses[i].confidence) = sum * 90

\* C23, amended: the score of a variant match is (0.4, plus 0.3 for a valid
\* province, plus the variant's correction score) times the weight of the
\* matched layout (0.6 to 0.9) times 0.9.
C23_WeightedVariantScore ==
    pc = "analyzed" =>
        \A i \in DOMAIN hypotheses :
            IsVariant(hypotheses[i]) =>
                \E sum \in VariantSums(hypotheses[i]) :
                    ExactValue(hypotheses[i].confidence) =
                        sum
                        * LAYOUT_WEIGHT[Len(hypotheses[i].groups[2])][Len(hypotheses[i].groups[3])]
                        * 9

\* Scenario 2: O6ABC123 matches as the variant 06ABC123, three letters and
\* three digits: (0.4 + 0.3 + 0.1) * 0.7 * 0.9 = 0.504.
C23_Witness ==
    /\ pc = "analyzed"
    /\ text = Scenario2TextB
    /\ IsVariant(best_analysis)
    /\ best_analysis.corrected_text = Scenario2TextA
    /\ ExactValue(best_analysis.confidence) = 5040


(***************************************************************************)
(* OCRManager() constructed from several threads (app/ocr.py).  A          *)
(* construction is __new__ and then __init__ on the object __new__         *)
(* returned; each statement is a step, and threads interleave between      *)
(* steps.  An object is the index of its _initialized attribute in         *)
(* manager.objects: "unset" until line 30 assigns it.                      *)
(***************************************************************************)
MaxConstructions == 2

\* A thread outside OCRManager(): self is the object __new__ returned, n the
\* constructions the thread has finished.
IdleConstruction == [pc |-> "idle", self |-> 0, n |-> 0]

InitManager ==
    /\ pc = "threads"
    /\ calls = [t \in Threads |-> IdleConstruction]
    /\ returned = {}
    /\ manager = NoManager
    /\ text = EmptyText
    /\ NoResults
    /\ NoCorrection
    /\ NoBoost
    /\ NoEnsemble
    /\ NoEngines

ManagerOther == <<pc, textVars, correctionVars, boostVars, ensembleVars, engineVars>>

\* Thread t moves to step p.
Goto(t, p) == calls' = [calls EXCEPT ![t].pc = p]

\* Thread t calls OCRManager().
Construct(t) ==
    /\ calls[t].pc = "idle"
    /\ calls[t].n < MaxConstructions
    /\ Goto(t, "new_check")
    /\ UNCHANGED <<returned, manager, ManagerOther>>

\* __new__, line 26: if cls._instance is None
NewCheck(t) ==
    /\ calls[t].pc = "new_check"
    /\ Goto(t, IF manager.instance = 0 THEN "new_lock" ELSE "new_return")
    /\ UNCHANGED <<returned, manager, ManagerOther>>

\* line 27: with cls._lock
NewLock(t) ==
    /\ calls[t].pc = "new_lock"
    /\ manager.lock = 0
    /\ manager' = [manager EXCEPT !.lock = t]
    /\ Goto(t, "new_recheck")
    /\ UNCHANGED <<returned, ManagerOther>>

\* line 28: if cls._instance is None, under the lock
NewRecheck(t) ==
    /\ calls[t].pc = "new_recheck"
    /\ Goto(t, IF manager.instance = 0 THEN "new_create" ELSE "new_unlock")
    /\ UNCHANGED <<returned, manager, ManagerOther>>

\* line 29: cls._instance = super().__new__(cls)
NewCreate(t) ==
    /\ calls[t].pc = "new_create"
    /\ manager' = [manager EXCEPT !.objects = Append(@, "unset"),
                                  !.instance = Len(manager.objects) + 1]
    /\ Goto(t, "new_flag")
    /\ UNCHANGED <<returned, ManagerOther>>

\* line 30: cls._instance._initialized = False
NewFlag(t) ==
    /\ calls[t].pc = "new_flag"
    /\ manager' = [manager EXCEPT !.objects[manager.instance] = "False"]
    /\ Goto(t, "new_unlock")
    /\ UNCHANGED <<returned, ManagerOther>>

\* the end of the with block
NewUnlock(t) ==
    /\ calls[t].pc = "new_unlock"
    /\ manager' = [manager EXCEPT !.lock = 0]
    /\ Goto(t, "new_return")
    /\ UNCHANGED <<returned, ManagerOther>>

\* line 31: return cls._instance; __init__ is then called on it
NewReturn(t) ==
    /\ calls[t].pc = "new_return"
    /\ calls' = [calls EXCEPT ![t].self = manager.instance, ![t].pc = "init_check"]
    /\ UNCHANGED <<returned, manager, ManagerOther>>

\* __init__, line 34: if not self._initialized.  Reading the attribute before
\* line 30 has assigned it raises AttributeError out of the construction.
InitCheck(t) ==
    /\ calls[t].pc = "init_check"
    /\ LET flag == manager.objects[calls[t].self]
       IN  IF flag = "unset"
           THEN /\ manager' = [manager EXCEPT !.errors = @ \cup {"AttributeError"}]
                /\ calls' = [calls EXCEPT ![t] = [IdleConstruction EXCEPT !.n = calls[t].n + 1]]
                /\ UNCHANGED returned
           ELSE IF flag = "False"
           THEN /\ Goto(t, "init_build")
                /\ UNCHANGED <<returned, manager>>
           ELSE /\ Goto(t, "init_done")
                /\ UNCHANGED <<returned, manager>>
    /\ UNCHANGED ManagerOther

\* lines 35-44: the engines are built
InitBuild(t) ==
    /\ calls[t].pc = "init_build"
    /\ manager' = [manager EXCEPT !.built = @ + 1]
    /\ Goto(t, "init_flag")
    /\ UNCHANGED <<returned, ManagerOther>>

\* lines 47-49: building an engine raised; the exception is logged and raised again
InitBuildFails(t) ==
    /\ calls[t].pc = "init_build"
    /\ manager' = [manager EXCEPT !.built = @ + 1, !.errors = @ \cup {"engine"}]
    /\ calls' = [calls EXCEPT ![t] = [IdleConstruction EXCEPT !.n = calls[t].n + 1]]
    /\ UNCHANGED <<returned, ManagerOther>>

\* line 45: self._initialized = True
InitFlag(t) ==
    /\ calls[t].pc = "init_flag"
    /\ manager' = [manager EXCEPT !.objects[calls[t].self] = "True"]
    /\ Goto(t, "init_done")
    /\ UNCHANGED <<returned, ManagerOther>>

\* OCRManager() returns self
InitDone(t) ==
    /\ calls[t].pc = "init_done"
    /\ returned' = returned \cup {calls[t].self}
    /\ calls' = [calls EXCEPT ![t] = [IdleConstruction EXCEPT !.n = calls[t].n + 1]]
    /\ UNCHANGED <<manager, ManagerOther>>

NextManager ==
    \E t \in Threads :
        \/ Construct(t) \/ NewCheck(t) \/ NewLock(t) \/ NewRecheck(t)
        \/ NewCreate(t) \/ NewFlag(t) \/ NewUnlock(t) \/ NewReturn(t)
        \/ InitCheck(t) \/ InitBuild(t) \/ InitBuildFails(t) \/ InitFlag(t)
        \/ InitDone(t)

ManagerSpec == InitManager /\ [][NextManager]_vars

OneInstance ==
    pc = "threads" =>
        /\ Len(manager.objects) <= 1
        /\ returned \subseteq {1}


C25_FixedPoint ==
    (/\ pc = "cleaned"
     /\ Len(text) >= 5
     /\ StandardGrammar(text)
     /\ ProvinceNumber(text) \in 1..81) => cleaned = text

\* C26: cleaning preserves validity.  For every text over A-Z and 0-9 of length
\* 5 to 10 that is well formed under the standard, diplomatic or legacy grammar,
\* the cleaned text is accepted by enhanced_validation.
C26_PreservesValidity ==
    (/\ pc = "revalidated"
     /\ Len(text) \in 5..10
     /\ AllIn(text, LETTERS \cup DIGITS)
     /\ \/ StandardGrammar(text) /\ ProvinceNumber(text) \in 1..81
        \/ DiplomaticGrammar(text)
        \/ LegacyGrammar(text)) => valid


(***************************************************************************)
(* Validity dominance, checked under EnsembleSpec                          *)
(***************************************************************************)
\* C27: validity dominance.  If the cleaned text of at least one engine is
\* accepted by enhanced_validation, the final text is accepted too, whatever the
\* confidences.
C27_ValidityDominance ==
    (pc = "decided" /\ (ValidA \/ ValidB)) => enhanced_validation(decision.final_text)

\* Only PaddleOCR's cleaned text is valid, EasyOCR's is not empty and has the
\* higher confidence, and the final text is valid.
C27_Witness ==
    /\ pc = "decided"
    /\ ValidB /\ ~ValidA
    /\ easy_cleaned # EmptyText
    /\ easyocr_conf > paddleocr_conf
    /\ enhanced_validation(decision.final_text)


(***************************************************************************)
(* Length of the corrected text, checked under Spec                        *)
(***************************************************************************)
\* C28: correction preserves length.  For every text over A-Z and 0-9,
\* context_aware_correction returns a text of the same length, whichever branch
\* is taken.
C28_PreservesLength ==
    (pc = "corrected" /\ AllIn(text, LETTERS \cup DIGITS)) =>
        Len(corrected_text) = Len(text)

\* The text of a correction variant is returned: it differs from the text and
\* has its length.
C28_Witness ==
    /\ pc = "corrected"
    /\ AllIn(text, LETTERS \cup DIGITS)
    /\ Len(text) >= 5
    /\ best_analysis.has_corrected_text
    /\ best_analysis.confidence > THRESHOLD
    /\ corrected_text # text
    /\ Len(corrected_text) = Len(text)


(***************************************************************************)
(* The reported source, checked under PipelineSpec                         *)
(***************************************************************************)
\* C29: reported ensemble source.  ensemble_source is 'both' exactly when the
\* decision tag is both_agree, 'easyocr' exactly when it is easyocr_valid,
\* 'paddleocr' exactly when it is paddleocr_valid, 'fallback' exactly when it is
\* one of the four *_higher tags, and 'none' only in the exception handler.
C29_ReportedSource ==
    /\ pc = "reported" =>
           /\ ensemble_source = "both" <=> decision.tag = "both_agree"
           /\ ensemble_source = "easyocr" <=> decision.tag = "easyocr_valid"
           /\ ensemble_source = "paddleocr" <=> decision.tag = "paddleocr_valid"
           /\ ensemble_source = "fallback" <=>
                  decision.tag \in {"both_valid_easy_higher", "both_valid_paddle_higher",
                                    "neither_valid_easy_higher",
                                    "neither_valid_paddle_higher"}
    /\ ensemble_source = "none" => pc = "handled"

\* EasyOCR reads a plate with the higher confidence and PaddleOCR another
\* plate: the tag names no engine in full and the source is 'fallback'.
C29_Witness ==
    /\ pc = "reported"
    /\ decision.tag = "both_valid_easy_higher"
    /\ ensemble_source = "fallback"

====
